---- MODULE Spec2Model ----
(***************************************************************************)
(* Model of sports-api/app/sql_generation/utils.py: the read-only guard    *)
(* (is_read_only_query), the query executor (execute_sql) and the retry    *)
(* loop (text_to_sql_with_retry).                                          *)
(*                                                                         *)
(* A Python str is a sequence of one-character strings.                    *)
(***************************************************************************)
EXTENDS Integers, Sequences, FiniteSets, TLC

VARIABLES
    \* ---- is_read_only_query, driven on its own (SpecGuard)
    query,          \* the sql_query argument
    chunks_added,   \* how many fragments were appended to the sample input
    checked,        \* is_read_only_query has returned
    read_only,      \* its return value
    \* ---- execute_sql, driven on its own (SpecExec)
    exec_pc,        \* "idle", "call", "connected", "returned", "raised"
    exec_sql,       \* the sql_query argument
    executed,       \* the statements handed to connection.execute(), in order
    driver_limit,   \* the largest result set the driver answers with in this run
    driver_columns, \* result.keys(): the column names the driver reports
    driver_rows,    \* result.all(): the rows the driver returns
    connections,    \* how many times ENGINE.connect() was called
    exec_result,    \* the result_dict returned
    exec_error,     \* the exception raised, "" when none
    conn_open,      \* the connection of ENGINE.connect() is checked out
    txn_open,       \* the transaction of connection.begin() is open
    \* ---- text_to_sql_with_retry (Spec)
    pc,             \* "idle", "entry", "loop", "extract", "execute", "except", "done"
    k,              \* the attempt budget
    messages_arg,   \* the messages argument: "None", "empty" or "conversation"
    messages,       \* the list the name messages is bound to
    messages0,      \* the Conversation when the loop starts
    i,              \* iterations of the loop completed
    assistant_message, \* None, or the reply of the last completion that returned
    sql_query,      \* the SqlCandidate extracted in this attempt
    error,          \* str(e) of the exception being handled
    completion_calls, \* how many times get_assistant_message was called
    schema_calls,   \* how many times get_table_schemas_str was called
    replies,        \* what each completion call gave: a reply, or CompletionError
    outcome,        \* "", "Success", "Exhausted", "Raised"
    returned,       \* the pair returned to the caller
    sent,           \* the messages argument of each get_assistant_message call
    few_shot_calls, \* how many times get_few_shot_messages was called
    caller_messages, \* the list object the caller passed as messages
    \* ---- two invocations in two threads (SpecConcurrent)
    tid,            \* the thread whose frame the variables above hold: 1 or 2
    parked          \* the frame of the other thread

guardVars == <<query, chunks_added, checked, read_only>>

execVars == <<exec_pc, exec_sql, executed, driver_limit, driver_columns,
              driver_rows, connections, exec_result, exec_error, conn_open,
              txn_open>>

orchVars == <<pc, k, messages_arg, messages, messages0, i, assistant_message,
              sql_query, error, completion_calls, schema_calls, replies,
              outcome, returned, sent, few_shot_calls, caller_messages>>

schedVars == <<tid, parked>>

vars == <<guardVars, execVars, orchVars, schedVars>>

(***************************************************************************)
(* Characters: the classes the re module tells apart (\w, \s, case).       *)
(***************************************************************************)
UpperCase == <<"A", "B", "C", "D", "E", "F", "G", "H", "I", "J", "K", "L", "M",
               "N", "O", "P", "Q", "R", "S", "T", "U", "V", "W", "X", "Y", "Z">>

LowerCase == <<"a", "b", "c", "d", "e", "f", "g", "h", "i", "j", "k", "l", "m",
               "n", "o", "p", "q", "r", "s", "t", "u", "v", "w", "x", "y", "z">>

Digits == {"0", "1", "2", "3", "4", "5", "6", "7", "8", "9"}

UpperSet == {UpperCase[n] : n \in 1..26}

LowerSet == {LowerCase[n] : n \in 1..26}

\* the lower-case letter of each upper-case letter
ToLower == [c \in UpperSet |-> LowerCase[CHOOSE n \in 1..26 : UpperCase[n] = c]]

LowerCaseSensitive(c) == c

\* re.IGNORECASE compares characters by their lower-case form
Lower(c) == IF c \in UpperSet THEN ToLower[c] ELSE c

WordChars == UpperSet \cup LowerSet \cup Digits \cup {"_"}

\* \w : letters, digits and the underscore
IsWordChar(c) == c \in WordChars

\* \s : white space
IsSpace(c) == c \in {" ", "\t", "\n", "\r", "\f"}

(***************************************************************************)
(* modifying_statements: each pattern is \bFIRST\b, or \bFIRST\s+SECOND\b   *)
(* when SECOND is not empty.                                               *)
(***************************************************************************)
modifying_statements ==
    << [first |-> <<"I", "N", "S", "E", "R", "T">>,           second |-> <<>>],
       [first |-> <<"U", "P", "D", "A", "T", "E">>,           second |-> <<>>],
       [first |-> <<"D", "E", "L", "E", "T", "E">>,           second |-> <<>>],
       [first |-> <<"D", "R", "O", "P">>,                     second |-> <<>>],
       [first |-> <<"C", "R", "E", "A", "T", "E">>,           second |-> <<>>],
       [first |-> <<"A", "L", "T", "E", "R">>,                second |-> <<>>],
       [first |-> <<"G", "R", "A", "N", "T">>,                second |-> <<>>],
       [first |-> <<"T", "R", "U", "N", "C", "A", "T", "E">>, second |-> <<>>],
       [first |-> <<"L", "O", "C", "K">>,
        second |-> <<"T", "A", "B", "L", "E", "S">>],
       [first |-> <<"U", "N", "L", "O", "C", "K">>,
        second |-> <<"T", "A", "B", "L", "E", "S">>] >>

\* whether position p of s (1-based) holds a word character; outside s: none
IsWordAt(s, p) == p >= 1 /\ p <= Len(s) /\ IsWordChar(s[p])

WordBoundaryAnywhere(s, p) == TRUE

\* \b between positions p-1 and p
WordBoundary(s, p) == IsWordAt(s, p - 1) # IsWordAt(s, p)

\* the literal lit matches s from position p on, ignoring case
MatchesLiteralAt(s, p, lit) ==
    /\ p >= 1
    /\ p + Len(lit) - 1 <= Len(s)
    /\ \A j \in 1..Len(lit) : Lower(s[p + j - 1]) = Lower(lit[j])

\* \s+ taking exactly n characters from position p on
MatchesSpacesAt(s, p, n) ==
    /\ n >= 1
    /\ p + n - 1 <= Len(s)
    /\ \A j \in 0..(n - 1) : IsSpace(s[p + j])

\* one alternative of the compiled pattern matches at position p
MatchesAt(s, p, pat) ==
    /\ WordBoundary(s, p)
    /\ MatchesLiteralAt(s, p, pat.first)
    /\ IF pat.second = <<>>
       THEN WordBoundary(s, p + Len(pat.first))
       ELSE \E n \in 1..Len(s) :
               /\ MatchesSpacesAt(s, p + Len(pat.first), n)
               /\ MatchesLiteralAt(s, p + Len(pat.first) + n, pat.second)
               /\ WordBoundary(s, p + Len(pat.first) + n + Len(pat.second))

\* pattern.search(sql_query): some alternative matches at some position
pattern_search(s) ==
    \E m \in 1..Len(modifying_statements) :
        \E p \in 1..Len(s) : MatchesAt(s, p, modifying_statements[m])

is_read_only_query(s) == IF pattern_search(s) THEN FALSE ELSE TRUE

(***************************************************************************)
(* Inputs of is_read_only_query: the sample queries, each extended by up   *)
(* to MaxChunks fragments.                                                 *)
(***************************************************************************)
EmptyQuery ==
    <<>>

SelectGames ==
    <<"S", "E", "L", "E", "C", "T", " ", "*", " ", "F", "R", "O", "M", " ",
    "g", "a", "m", "e", "s">>

SelectThenDrop ==
    <<"s", "e", "l", "e", "c", "t", " ", "n", "a", "m", "e", " ", "f", "r",
    "o", "m", " ", "u", "s", "e", "r", "s", ";", " ", "D", "R", "O", "P",
    " ", "T", "A", "B", "L", "E", " ", "u", "s", "e", "r", "s", ";">>

UpdateScores ==
    <<"U", "P", "D", "A", "T", "E", " ", "s", "c", "o", "r", "e", "s", " ",
    "S", "E", "T", " ", "x", "=", "1">>

SelectUpdateMe ==
    <<"S", "E", "L", "E", "C", "T", " ", "'", "u", "p", "d", "a", "t", "e",
    " ", "m", "e", "'">>

SelectUpdatedAt ==
    <<"S", "E", "L", "E", "C", "T", " ", "u", "p", "d", "a", "t", "e", "d",
    "_", "a", "t", " ", "F", "R", "O", "M", " ", "t">>

InsertLower ==
    <<"i", "n", "s", "e", "r", "t">>

DeleteMixed ==
    <<"D", "e", "l", "e", "t", "e", " ", "x">>

CreateAlone ==
    <<"C", "R", "E", "A", "T", "E">>

AlterGrant ==
    <<"a", "l", "t", "e", "r", ";", "G", "R", "A", "N", "T">>

TruncateLower ==
    <<"t", "r", "u", "n", "c", "a", "t", "e", " ", "t">>

LockAlone ==
    <<"l", "o", "c", "k">>

LockTables ==
    <<"L", "O", "C", "K", " ", "T", "A", "B", "L", "E", "S", " ", "t">>

UnlockTables ==
    <<"U", "n", "l", "o", "c", "k", "\t", "\n", "t", "a", "b", "l", "e", "s">>

SampleQueries ==
    {EmptyQuery, SelectGames, SelectThenDrop, UpdateScores, SelectUpdateMe,
     SelectUpdatedAt, InsertLower, DeleteMixed, CreateAlone, AlterGrant,
     TruncateLower, LockAlone, LockTables, UnlockTables}

Fragments ==
    {<<"u", "p", "d", "a", "t", "e">>, <<"D", "R", "O", "P">>, <<"L", "o",
     "c", "k">>, <<"t", "a", "b", "l", "e", "s">>, <<"u", "n">>, <<"d">>,
     <<"_">>, <<"1">>, <<" ">>, <<"\n">>, <<"'">>, <<";">>}

MaxChunks == 2

(***************************************************************************)
(* Python values: an object is its type's name and its repr.               *)
(***************************************************************************)
PyStr(x) == [tag |-> "str", repr |-> x]

PyInt(x) == [tag |-> "int", repr |-> x]

PyNone == [tag |-> "NoneType", repr |-> "None"]

\* type(obj).__name__
TypeName(obj) == obj.tag

(***************************************************************************)
(* OrderedDict: the <<key, value>> pairs in insertion order, keys unique.  *)
(***************************************************************************)
HasKey(d, key) == \E n \in 1..Len(d) : d[n][1] = key

\* d[key] = value: a new key goes last, a present key keeps its place and
\* takes the new value
OrderedDictSet(d, key, value) ==
    IF HasKey(d, key)
    THEN [n \in 1..Len(d) |-> IF d[n][1] = key THEN <<key, value>> ELSE d[n]]
    ELSE Append(d, <<key, value>>)

\* iterating a dict yields its keys
OrderedDictIter(d) == [n \in 1..Len(d) |-> d[n][1]]

\* result = OrderedDict(); for i, column_name in enumerate(column_names):
\*     result[column_name] = row[i]
RECURSIVE RowToDict(_, _, _)
RowToDict(column_names, row, n) ==
    IF n = 0
    THEN <<>>
    ELSE OrderedDictSet(RowToDict(column_names, row, n - 1),
                        column_names[n], row[n])

\* [type(r).__name__ for r in results[0]]
ColumnTypes(first) ==
    LET keys == OrderedDictIter(first)
    IN  [n \in 1..Len(keys) |-> TypeName(keys[n])]

BuildResultDictAlwaysTypes(column_names, rows) ==
    LET results == [r \in 1..Len(rows) |->
                       RowToDict(column_names, rows[r], Len(column_names))]
    IN  [column_names     |-> column_names,
         results          |-> results,
         has_column_types |-> TRUE,
         column_types     |-> IF results # <<>>
                              THEN ColumnTypes(results[1])
                              ELSE <<>>]

\* the result_dict execute_sql builds from what the driver returned; the key
\* column_types is set only when has_column_types
BuildResultDict(column_names, rows) ==
    LET results == [r \in 1..Len(rows) |->
                       RowToDict(column_names, rows[r], Len(column_names))]
    IN  [column_names     |-> column_names,
         results          |-> results,
         has_column_types |-> results # <<>>,
         column_types     |-> IF results # <<>>
                              THEN ColumnTypes(results[1])
                              ELSE <<>>]

NoResultDict ==
    [column_names |-> <<>>, results |-> <<>>, has_column_types |-> FALSE,
     column_types |-> <<>>]

(***************************************************************************)
(* Messages and the collaborators of text_to_sql_with_retry.  A content is *)
(* a sequence of strings: a plain text, or a template's name followed by   *)
(* the values formatted into it.                                           *)
(***************************************************************************)
Message(role, content) == [role |-> role, content |-> content]

PlainText(s) == <<s>>

\* template.format(...)
FormatTemplate(name, args) == <<name>> \o args

NoneValue == "None"

CompletionError == "CompletionError"

\* the replies the completion client may give
ReplyTexts ==
    {"reply without sql", "reply: SELECT * FROM games",
     "reply: SELECT updated_at FROM t", "reply: UPDATE scores SET x=1"}

\* extract_sql_query_from_message: whether the text holds a SQL block
HoldsSql(text) == text # "reply without sql"

\* extract_sql_query_from_message: the SQL block of the text
extract_sql_query_from_message(text) ==
    CASE text = "reply: SELECT * FROM games" -> SelectGames
      [] text = "reply: SELECT updated_at FROM t" -> SelectUpdatedAt
      [] text = "reply: UPDATE scores SET x=1" -> UpdateScores

\* get_few_shot_messages(mode="text_to_sql")
get_few_shot_messages ==
    << Message("user", PlainText("few-shot question")),
       Message("assistant", PlainText("few-shot answer")) >>

\* lines 27-45: a new list holding the few-shot messages
make_default_messages == get_few_shot_messages

\* lines 173-176
InstructionContent ==
    FormatTemplate("make_msg_with_schema_and_warnings",
                   <<"natural_language_query", "schemas_str">>)

\* lines 12-24 and 218
CorrectionContent(error_message) ==
    FormatTemplate("MSG_WITH_ERROR_TRY_AGAIN", <<error_message>>)

\* a Conversation the caller hands in
SuppliedConversation == << Message("user", PlainText("earlier question")) >>

NotReturned == [pair |-> "", response |-> NoResultDict, sql_query |-> <<>>]

\* return None, None
NonePair == [pair |-> "None, None", response |-> NoResultDict, sql_query |-> <<>>]

\* return response, sql_query
ResultPair(response, sql) ==
    [pair |-> "response, sql_query", response |-> response, sql_query |-> sql]

OrchIdle ==
    /\ pc = "idle"
    /\ k = 0
    /\ messages_arg = "None"
    /\ messages = <<>>
    /\ messages0 = <<>>
    /\ i = 0
    /\ assistant_message = NoneValue
    /\ sql_query = <<>>
    /\ error = ""
    /\ completion_calls = 0
    /\ schema_calls = 0
    /\ replies = <<>>
    /\ outcome = ""
    /\ returned = NotReturned
    /\ sent = <<>>
    /\ few_shot_calls = 0
    /\ caller_messages = <<>>

(***************************************************************************)
(* execute_sql, as steps of the calling thread: the guard and the connect, *)
(* the driver's answer (any result set within driver_limit, or an error),  *)
(* and the shaping of the rows.                                            *)
(***************************************************************************)
MaxCols == 2

MaxRows == 2

DriverColumnNames == {PyStr("a"), PyStr("b")}

DriverValues == {PyInt("1"), PyStr("x"), PyNone}

ExecQueries == {SelectGames, UpdateScores, SelectUpdatedAt, SelectThenDrop}

NotReadOnlyMessage == "Only read-only queries are allowed."

GuardIdle ==
    /\ query = <<>>
    /\ chunks_added = 0
    /\ checked = FALSE
    /\ read_only = FALSE

ExecIdle ==
    /\ exec_pc = "idle"
    /\ exec_sql = <<>>
    /\ executed = <<>>
    /\ driver_limit = [cols |-> 0, rows |-> 0]
    /\ driver_columns = <<>>
    /\ driver_rows = <<>>
    /\ connections = 0
    /\ exec_result = NoResultDict
    /\ exec_error = ""
    /\ conn_open = FALSE
    /\ txn_open = FALSE

ExecuteSqlUnguarded ==
    /\ exec_pc = "call"
    /\ exec_pc' = "connected"
    /\ connections' = connections + 1
    /\ executed' = Append(executed, exec_sql)
    /\ conn_open' = TRUE
    /\ txn_open' = TRUE
    /\ UNCHANGED <<exec_sql, driver_limit, driver_columns, driver_rows,
                   exec_result, exec_error>>
    /\ UNCHANGED <<guardVars, orchVars, schedVars>>

\* lines 129-135: the guard, then ENGINE.connect() and connection.execute()
ExecuteSqlEnter ==
    /\ exec_pc = "call"
    /\ IF ~is_read_only_query(exec_sql)
       THEN /\ exec_pc' = "raised"
            /\ exec_error' = NotReadOnlyMessage
            /\ UNCHANGED <<connections, executed, conn_open, txn_open>>
       ELSE /\ exec_pc' = "connected"
            /\ connections' = connections + 1
            /\ conn_open' = TRUE
            /\ txn_open' = TRUE
            /\ executed' = Append(executed, exec_sql)
            /\ UNCHANGED exec_error
    /\ UNCHANGED <<exec_sql, driver_limit, driver_columns, driver_rows,
                   exec_result>>
    /\ UNCHANGED <<guardVars, orchVars, schedVars>>

\* the driver's answer grows by a column (before any row exists)
DriverAddColumn ==
    /\ exec_pc = "connected"
    /\ driver_rows = <<>>
    /\ Len(driver_columns) < driver_limit.cols
    /\ \E c \in DriverColumnNames : driver_columns' = Append(driver_columns, c)
    /\ UNCHANGED <<exec_pc, exec_sql, executed, driver_limit, driver_rows,
                   connections, exec_result, exec_error, conn_open, txn_open>>
    /\ UNCHANGED <<guardVars, orchVars, schedVars>>

\* the driver's answer grows by a row, one value per column (a row of no
\* values when the statement selects no column)
DriverAddRow ==
    /\ exec_pc = "connected"
    /\ Len(driver_rows) < driver_limit.rows
    /\ \E row \in [1..Len(driver_columns) -> DriverValues] :
          driver_rows' = Append(driver_rows, row)
    /\ UNCHANGED <<exec_pc, exec_sql, executed, driver_limit, driver_columns,
                   connections, exec_result, exec_error, conn_open, txn_open>>
    /\ UNCHANGED <<guardVars, orchVars, schedVars>>

DriverRaisesKeepsConnection ==
    /\ exec_pc = "connected"
    /\ driver_columns = <<>>
    /\ driver_rows = <<>>
    /\ exec_pc' = "raised"
    /\ exec_error' = "ExecutionError"
    /\ UNCHANGED <<txn_open, conn_open>>
    /\ UNCHANGED <<exec_sql, executed, driver_limit, driver_columns,
                   driver_rows, connections, exec_result>>
    /\ UNCHANGED <<guardVars, orchVars, schedVars>>

\* connection.execute() raises: the error leaves execute_sql, the with
\* blocks closing the transaction and the connection
DriverRaises ==
    /\ exec_pc = "connected"
    /\ driver_columns = <<>>
    /\ driver_rows = <<>>
    /\ exec_pc' = "raised"
    /\ exec_error' = "ExecutionError"
    /\ txn_open' = FALSE
    /\ conn_open' = FALSE
    /\ UNCHANGED <<exec_sql, executed, driver_limit, driver_columns,
                   driver_rows, connections, exec_result>>
    /\ UNCHANGED <<guardVars, orchVars, schedVars>>

\* lines 137-162: the rows are shaped and result_dict is returned
ExecuteSqlReturn ==
    /\ exec_pc = "connected"
    /\ exec_pc' = "returned"
    /\ exec_result' = BuildResultDict(driver_columns, driver_rows)
    /\ txn_open' = FALSE
    /\ conn_open' = FALSE
    /\ UNCHANGED <<exec_sql, executed, driver_limit, driver_columns,
                   driver_rows, connections, exec_error>>
    /\ UNCHANGED <<guardVars, orchVars, schedVars>>

\* no second thread: the frame of an invocation that was never started
NoFrame ==
    [pc |-> "idle", k |-> 0, messages_arg |-> "None", messages |-> <<>>,
     messages0 |-> <<>>, i |-> 0, assistant_message |-> NoneValue,
     sql_query |-> <<>>, error |-> "", completion_calls |-> 0,
     schema_calls |-> 0, replies |-> <<>>, outcome |-> "",
     returned |-> NotReturned, sent |-> <<>>, few_shot_calls |-> 0,
     caller_messages |-> <<>>,
     exec_pc |-> "idle", exec_sql |-> <<>>,
     driver_limit |-> [cols |-> 0, rows |-> 0], driver_columns |-> <<>>,
     driver_rows |-> <<>>, exec_result |-> NoResultDict, exec_error |-> "",
     conn_open |-> FALSE, txn_open |-> FALSE]

SchedIdle ==
    /\ tid = 1
    /\ parked = NoFrame

ExecuteSqlStep ==
    \/ ExecuteSqlEnter
    \/ DriverAddColumn
    \/ DriverAddRow
    \/ DriverRaises
    \/ ExecuteSqlReturn

(***************************************************************************)
(* SpecExec: execute_sql called once, on each query of ExecQueries.        *)
(***************************************************************************)
ExecCalled(sql, limit) ==
    /\ exec_pc = "call"
    /\ exec_sql = sql
    /\ executed = <<>>
    /\ driver_limit = limit
    /\ driver_columns = <<>>
    /\ driver_rows = <<>>
    /\ connections = 0
    /\ exec_result = NoResultDict
    /\ exec_error = ""
    /\ conn_open = FALSE
    /\ txn_open = FALSE

InitExec ==
    /\ \E sql \in ExecQueries :
          ExecCalled(sql, [cols |-> MaxCols, rows |-> MaxRows])
    /\ GuardIdle
    /\ OrchIdle
    /\ SchedIdle

NextExec == ExecuteSqlStep

SpecExec == InitExec /\ [][NextExec]_vars

(***************************************************************************)
(* Spec: one invocation of text_to_sql_with_retry, with any budget k up to *)
(* MaxK, any messages argument, and collaborators that answer in any way.  *)
(***************************************************************************)
MaxK == 3

Init ==
    /\ pc = "entry"
    /\ k \in -1..MaxK
    /\ messages_arg \in {"None", "empty", "conversation"}
    /\ messages = IF messages_arg = "conversation" THEN SuppliedConversation ELSE <<>>
    /\ messages0 = <<>>
    /\ i = 0
    /\ assistant_message = NoneValue
    /\ sql_query = <<>>
    /\ error = ""
    /\ completion_calls = 0
    /\ schema_calls = 0
    /\ replies = <<>>
    /\ outcome = ""
    /\ returned = NotReturned
    /\ sent = <<>>
    /\ few_shot_calls = 0
    /\ caller_messages = messages
    /\ SchedIdle
    /\ GuardIdle
    /\ exec_pc = "idle"
    /\ exec_sql = <<>>
    /\ executed = <<>>
    /\ driver_limit = [cols |-> 1, rows |-> 1]
    /\ driver_columns = <<>>
    /\ driver_rows = <<>>
    /\ connections = 0
    /\ exec_result = NoResultDict
    /\ exec_error = ""
    /\ conn_open = FALSE
    /\ txn_open = FALSE

EnterAlwaysBuilds ==
    /\ pc = "entry"
    /\ schema_calls' = schema_calls + 1
    /\ few_shot_calls' = few_shot_calls + 1
    /\ messages' = Append(make_default_messages,
                          Message("user", InstructionContent))
    /\ messages0' = messages'
    /\ assistant_message' = NoneValue
    /\ pc' = "loop"
    /\ UNCHANGED <<k, messages_arg, i, sql_query, error, completion_calls,
                   replies, outcome, returned>>
    /\ UNCHANGED <<guardVars, execVars, schedVars>>
    /\ UNCHANGED <<sent, caller_messages>>

\* lines 169-186: the Conversation is built unless one was handed in
\* (not messages holds of None and of an empty list alike)
Enter ==
    /\ pc = "entry"
    /\ IF messages = <<>>
       THEN /\ schema_calls' = schema_calls + 1
            /\ few_shot_calls' = few_shot_calls + 1
            /\ messages' = Append(make_default_messages,
                                  Message("user", InstructionContent))
       ELSE UNCHANGED <<schema_calls, few_shot_calls, messages>>
    /\ messages0' = messages'
    /\ assistant_message' = NoneValue
    /\ pc' = "loop"
    /\ UNCHANGED <<k, messages_arg, i, sql_query, error, completion_calls,
                   replies, outcome, returned>>
    /\ UNCHANGED <<guardVars, execVars, schedVars>>
    /\ UNCHANGED <<sent, caller_messages>>

CallerSeesItsOwnCopy(list) == caller_messages

\* lines 165-184: messages names the caller's list object unless line 180
\* bound the name to a new list, so list.append() on it shows to the caller
CallerSees(list) ==
    IF messages_arg = "conversation" THEN list ELSE caller_messages

LoopRunsAtLeastOnce == i < k \/ i = 0

LoopContinuesOnceMore == i <= k

\* line 188: for _ in range(k)
LoopContinues == i < k

\* line 193: get_assistant_message returns a reply
CompletionReturns(text) ==
    /\ pc = "loop"
    /\ LoopContinues
    /\ assistant_message' = text
    /\ completion_calls' = completion_calls + 1
    /\ replies' = Append(replies, text)
    /\ pc' = "extract"
    /\ UNCHANGED <<k, messages_arg, messages, messages0, i, sql_query, error,
                   schema_calls, outcome, returned>>
    /\ UNCHANGED <<guardVars, execVars, schedVars>>
    /\ sent' = Append(sent, messages)
    /\ UNCHANGED <<few_shot_calls, caller_messages>>

\* line 193: get_assistant_message raises; line 210 catches it
CompletionRaises ==
    /\ pc = "loop"
    /\ LoopContinues
    /\ completion_calls' = completion_calls + 1
    /\ replies' = Append(replies, CompletionError)
    /\ error' = CompletionError
    /\ pc' = "except"
    /\ UNCHANGED <<k, messages_arg, messages, messages0, i, assistant_message,
                   sql_query, schema_calls, outcome, returned>>
    /\ UNCHANGED <<guardVars, execVars, schedVars>>
    /\ sent' = Append(sent, messages)
    /\ UNCHANGED <<few_shot_calls, caller_messages>>

\* lines 195-206: the SQL is extracted and execute_sql is called with it
ExtractSqlQuery ==
    /\ pc = "extract"
    /\ IF HoldsSql(assistant_message)
       THEN /\ sql_query' = extract_sql_query_from_message(assistant_message)
            /\ pc' = "execute"
            /\ exec_pc' = "call"
            /\ exec_sql' = sql_query'
            /\ driver_columns' = <<>>
            /\ driver_rows' = <<>>
            /\ exec_result' = NoResultDict
            /\ exec_error' = ""
            /\ UNCHANGED error
       ELSE /\ error' = "NoSqlFound"
            /\ pc' = "except"
            /\ UNCHANGED <<sql_query, exec_pc, exec_sql, driver_columns,
                           driver_rows, exec_result, exec_error>>
    /\ UNCHANGED <<k, messages_arg, messages, messages0, i, assistant_message,
                   completion_calls, schema_calls, replies, outcome, returned>>
    /\ UNCHANGED <<executed, driver_limit, connections, conn_open, txn_open>>
    /\ UNCHANGED <<guardVars, schedVars>>
    /\ UNCHANGED <<sent, few_shot_calls, caller_messages>>

ReturnResponseAppendsReply ==
    /\ pc = "execute"
    /\ exec_pc = "returned"
    /\ returned' = ResultPair(exec_result, sql_query)
    /\ outcome' = "Success"
    /\ pc' = "done"
    /\ exec_pc' = "idle"
    /\ messages' = Append(messages,
                          Message("assistant", PlainText(assistant_message)))
    /\ UNCHANGED <<k, messages_arg, messages0, i, assistant_message,
                   sql_query, error, completion_calls, schema_calls, replies>>
    /\ UNCHANGED <<exec_sql, executed, driver_limit, driver_columns,
                   driver_rows, connections, exec_result, exec_error,
                   conn_open, txn_open>>
    /\ UNCHANGED <<guardVars, schedVars>>
    /\ caller_messages' = CallerSees(messages')
    /\ UNCHANGED <<sent, few_shot_calls>>

\* lines 206-208: execute_sql returned, the pair goes to the caller
ReturnResponse ==
    /\ pc = "execute"
    /\ exec_pc = "returned"
    /\ returned' = ResultPair(exec_result, sql_query)
    /\ outcome' = "Success"
    /\ pc' = "done"
    /\ exec_pc' = "idle"
    /\ UNCHANGED <<k, messages_arg, messages, messages0, i, assistant_message,
                   sql_query, error, completion_calls, schema_calls, replies>>
    /\ UNCHANGED <<exec_sql, executed, driver_limit, driver_columns,
                   driver_rows, connections, exec_result, exec_error,
                   conn_open, txn_open>>
    /\ UNCHANGED <<guardVars, schedVars>>
    /\ UNCHANGED <<sent, few_shot_calls, caller_messages>>

\* lines 206 and 210: execute_sql raised, the except clause catches it
CatchExecuteSqlError ==
    /\ pc = "execute"
    /\ exec_pc = "raised"
    /\ error' = exec_error
    /\ pc' = "except"
    /\ exec_pc' = "idle"
    /\ UNCHANGED <<k, messages_arg, messages, messages0, i, assistant_message,
                   sql_query, completion_calls, schema_calls, replies, outcome,
                   returned>>
    /\ UNCHANGED <<exec_sql, executed, driver_limit, driver_columns,
                   driver_rows, connections, exec_result, exec_error,
                   conn_open, txn_open>>
    /\ UNCHANGED <<guardVars, schedVars>>
    /\ UNCHANGED <<sent, few_shot_calls, caller_messages>>

ExceptHandlerOnlyCorrection ==
    /\ pc = "except"
    /\ IF assistant_message = NoneValue
       THEN /\ outcome' = "Raised"
            /\ error' = "TypeError"
            /\ pc' = "done"
            /\ UNCHANGED <<messages, i, caller_messages>>
       ELSE /\ messages' = Append(messages,
                                  Message("user", CorrectionContent(error)))
            /\ caller_messages' = CallerSees(messages')
            /\ i' = i + 1
            /\ pc' = "loop"
            /\ UNCHANGED <<outcome, error>>
    /\ UNCHANGED <<k, messages_arg, messages0, assistant_message, sql_query,
                   completion_calls, schema_calls, replies, returned>>
    /\ UNCHANGED <<guardVars, execVars, schedVars>>
    /\ UNCHANGED <<sent, few_shot_calls>>

ExceptHandlerAppendsNone ==
    /\ pc = "except"
    /\ messages' = messages \o
           << Message("assistant", PlainText(assistant_message)),
              Message("user", CorrectionContent(error)) >>
    /\ i' = i + 1
    /\ pc' = "loop"
    /\ UNCHANGED <<outcome, error>>
    /\ UNCHANGED <<k, messages_arg, messages0, assistant_message, sql_query,
                   completion_calls, schema_calls, replies, returned>>
    /\ UNCHANGED <<guardVars, execVars, schedVars>>
    /\ caller_messages' = CallerSees(messages')
    /\ UNCHANGED <<sent, few_shot_calls>>

ExceptHandlerCorrectionFirst ==
    /\ pc = "except"
    /\ IF assistant_message = NoneValue
       THEN /\ outcome' = "Raised"
            /\ error' = "TypeError"
            /\ pc' = "done"
            /\ UNCHANGED <<messages, i, caller_messages>>
       ELSE /\ messages' = messages \o
                   << Message("user", CorrectionContent(error)),
                      Message("assistant", PlainText(assistant_message)) >>
            /\ caller_messages' = CallerSees(messages')
            /\ i' = i + 1
            /\ pc' = "loop"
            /\ UNCHANGED <<outcome, error>>
    /\ UNCHANGED <<k, messages_arg, messages0, assistant_message, sql_query,
                   completion_calls, schema_calls, replies, returned>>
    /\ UNCHANGED <<guardVars, execVars, schedVars>>
    /\ UNCHANGED <<sent, few_shot_calls>>

ExceptHandlerKeepsLastTurnOnly ==
    /\ pc = "except"
    /\ IF assistant_message = NoneValue
       THEN /\ outcome' = "Raised"
            /\ error' = "TypeError"
            /\ pc' = "done"
            /\ UNCHANGED <<messages, i, caller_messages>>
       ELSE /\ messages' = messages0 \o
                   << Message("assistant", PlainText(assistant_message)),
                      Message("user", CorrectionContent(error)) >>
            /\ caller_messages' = CallerSees(messages')
            /\ i' = i + 1
            /\ pc' = "loop"
            /\ UNCHANGED <<outcome, error>>
    /\ UNCHANGED <<k, messages_arg, messages0, assistant_message, sql_query,
                   completion_calls, schema_calls, replies, returned>>
    /\ UNCHANGED <<guardVars, execVars, schedVars>>
    /\ UNCHANGED <<sent, few_shot_calls>>

\* lines 210-219: assistant_message["message"] raises TypeError out of the
\* function while assistant_message is None; otherwise the reply held by
\* assistant_message and the correction message are appended
ExceptHandler ==
    /\ pc = "except"
    /\ IF assistant_message = NoneValue
       THEN /\ outcome' = "Raised"
            /\ error' = "TypeError"
            /\ pc' = "done"
            /\ UNCHANGED <<messages, i, caller_messages>>
       ELSE /\ messages' = messages \o
                   << Message("assistant", PlainText(assistant_message)),
                      Message("user", CorrectionContent(error)) >>
            /\ caller_messages' = CallerSees(messages')
            /\ i' = i + 1
            /\ pc' = "loop"
            /\ UNCHANGED <<outcome, error>>
    /\ UNCHANGED <<k, messages_arg, messages0, assistant_message, sql_query,
                   completion_calls, schema_calls, replies, returned>>
    /\ UNCHANGED <<guardVars, execVars, schedVars>>
    /\ UNCHANGED <<sent, few_shot_calls>>

\* lines 221-222: the loop is over, return None, None
Exhausted ==
    /\ pc = "loop"
    /\ ~LoopContinues
    /\ outcome' = "Exhausted"
    /\ returned' = NonePair
    /\ pc' = "done"
    /\ UNCHANGED <<k, messages_arg, messages, messages0, i, assistant_message,
                   sql_query, error, completion_calls, schema_calls, replies>>
    /\ UNCHANGED <<guardVars, execVars, schedVars>>
    /\ UNCHANGED <<sent, few_shot_calls, caller_messages>>

Next ==
    \/ Enter
    \/ \E text \in ReplyTexts : CompletionReturns(text)
    \/ CompletionRaises
    \/ ExtractSqlQuery
    \/ ExecuteSqlStep
    \/ ReturnResponse
    \/ CatchExecuteSqlError
    \/ ExceptHandler
    \/ Exhausted

Spec == Init /\ [][Next]_vars

\* every collaborator call returns or raises, and the thread keeps running
FairSpec == Spec /\ WF_vars(Next)

(***************************************************************************)
(* SpecConcurrent: two invocations of text_to_sql_with_retry in two        *)
(* threads.  The variables hold the frame of the thread that is running    *)
(* and parked the frame of the other one; Switch hands the processor over  *)
(* between any two steps.  What is not in a frame is shared by the two     *)
(* threads: ENGINE (connections) and the database (executed).              *)
(***************************************************************************)
MaxKConcurrent == 2

\* the Conversation the caller of the second invocation hands in
OtherConversation == << Message("user", PlainText("another question")) >>

\* the messages argument of the invocation in thread t
SuppliedTo(t, arg) ==
    IF arg # "conversation" THEN <<>>
    ELSE IF t = 1 THEN SuppliedConversation ELSE OtherConversation

\* the replies the completion client gives to the invocation in thread t
RepliesTo(t) ==
    IF t = 1
    THEN {"reply without sql", "reply: SELECT * FROM games"}
    ELSE {"reply: SELECT updated_at FROM t", "reply: UPDATE scores SET x=1"}

\* the parameters and local variables of the running invocation, those of
\* its execute_sql call included
Frame ==
    [pc |-> pc, k |-> k, messages_arg |-> messages_arg,
     messages |-> messages, messages0 |-> messages0, i |-> i,
     assistant_message |-> assistant_message, sql_query |-> sql_query,
     error |-> error, completion_calls |-> completion_calls,
     schema_calls |-> schema_calls, replies |-> replies, outcome |-> outcome,
     returned |-> returned, sent |-> sent, few_shot_calls |-> few_shot_calls,
     caller_messages |-> caller_messages, exec_pc |-> exec_pc,
     exec_sql |-> exec_sql, driver_limit |-> driver_limit,
     driver_columns |-> driver_columns, driver_rows |-> driver_rows,
     exec_result |-> exec_result, exec_error |-> exec_error,
     conn_open |-> conn_open, txn_open |-> txn_open]

\* the frame of an invocation about to start in thread t
StartFrame(t, budget, arg) ==
    [NoFrame EXCEPT !.pc = "entry", !.k = budget, !.messages_arg = arg,
                    !.messages = SuppliedTo(t, arg),
                    !.caller_messages = SuppliedTo(t, arg)]

\* the variables hold frame f
Loaded(f) ==
    /\ pc = f.pc
    /\ k = f.k
    /\ messages_arg = f.messages_arg
    /\ messages = f.messages
    /\ messages0 = f.messages0
    /\ i = f.i
    /\ assistant_message = f.assistant_message
    /\ sql_query = f.sql_query
    /\ error = f.error
    /\ completion_calls = f.completion_calls
    /\ schema_calls = f.schema_calls
    /\ replies = f.replies
    /\ outcome = f.outcome
    /\ returned = f.returned
    /\ sent = f.sent
    /\ few_shot_calls = f.few_shot_calls
    /\ caller_messages = f.caller_messages
    /\ exec_pc = f.exec_pc
    /\ exec_sql = f.exec_sql
    /\ driver_limit = f.driver_limit
    /\ driver_columns = f.driver_columns
    /\ driver_rows = f.driver_rows
    /\ exec_result = f.exec_result
    /\ exec_error = f.exec_error
    /\ conn_open = f.conn_open
    /\ txn_open = f.txn_open

RestoreSharingMessages(f) ==
    /\ pc' = f.pc
    /\ k' = f.k
    /\ messages_arg' = f.messages_arg
    /\ UNCHANGED messages
    /\ messages0' = f.messages0
    /\ i' = f.i
    /\ assistant_message' = f.assistant_message
    /\ sql_query' = f.sql_query
    /\ error' = f.error
    /\ completion_calls' = f.completion_calls
    /\ schema_calls' = f.schema_calls
    /\ replies' = f.replies
    /\ outcome' = f.outcome
    /\ returned' = f.returned
    /\ sent' = f.sent
    /\ few_shot_calls' = f.few_shot_calls
    /\ caller_messages' = f.caller_messages
    /\ exec_pc' = f.exec_pc
    /\ exec_sql' = f.exec_sql
    /\ driver_limit' = f.driver_limit
    /\ driver_columns' = f.driver_columns
    /\ driver_rows' = f.driver_rows
    /\ exec_result' = f.exec_result
    /\ exec_error' = f.exec_error
    /\ conn_open' = f.conn_open
    /\ txn_open' = f.txn_open

\* the thread of frame f goes on: its parameters and locals are its own
Restore(f) ==
    /\ pc' = f.pc
    /\ k' = f.k
    /\ messages_arg' = f.messages_arg
    /\ messages' = f.messages
    /\ messages0' = f.messages0
    /\ i' = f.i
    /\ assistant_message' = f.assistant_message
    /\ sql_query' = f.sql_query
    /\ error' = f.error
    /\ completion_calls' = f.completion_calls
    /\ schema_calls' = f.schema_calls
    /\ replies' = f.replies
    /\ outcome' = f.outcome
    /\ returned' = f.returned
    /\ sent' = f.sent
    /\ few_shot_calls' = f.few_shot_calls
    /\ caller_messages' = f.caller_messages
    /\ exec_pc' = f.exec_pc
    /\ exec_sql' = f.exec_sql
    /\ driver_limit' = f.driver_limit
    /\ driver_columns' = f.driver_columns
    /\ driver_rows' = f.driver_rows
    /\ exec_result' = f.exec_result
    /\ exec_error' = f.exec_error
    /\ conn_open' = f.conn_open
    /\ txn_open' = f.txn_open

\* the running thread is preempted and the other one runs
Switch ==
    /\ parked.pc \notin {"idle", "done"}
    /\ tid' = 3 - tid
    /\ parked' = Frame
    /\ Restore(parked)
    /\ UNCHANGED <<executed, connections>>
    /\ UNCHANGED guardVars

InitConcurrent ==
    /\ tid = 1
    /\ \E budget \in 1..MaxKConcurrent, arg \in {"None", "conversation"} :
          Loaded(StartFrame(1, budget, arg))
    /\ \E budget \in 1..MaxKConcurrent, arg \in {"None", "conversation"} :
          parked = StartFrame(2, budget, arg)
    /\ executed = <<>>
    /\ connections = 0
    /\ GuardIdle

\* a step of the running thread (the database answers with an empty result
\* set or an error), or a switch to the other thread
NextConcurrent ==
    \/ Enter
    \/ \E text \in RepliesTo(tid) : CompletionReturns(text)
    \/ CompletionRaises
    \/ ExtractSqlQuery
    \/ ExecuteSqlEnter
    \/ DriverRaises
    \/ ExecuteSqlReturn
    \/ ReturnResponse
    \/ CatchExecuteSqlError
    \/ ExceptHandler
    \/ Exhausted
    \/ Switch

SpecConcurrent == InitConcurrent /\ [][NextConcurrent]_vars

(***************************************************************************)
(* SpecGuard: is_read_only_query applied to every input.                   *)
(***************************************************************************)
InitGuard ==
    /\ query \in SampleQueries
    /\ chunks_added = 0
    /\ checked = FALSE
    /\ read_only = FALSE
    /\ ExecIdle
    /\ OrchIdle
    /\ SchedIdle

AppendFragment ==
    /\ ~checked
    /\ chunks_added < MaxChunks
    /\ \E f \in Fragments : query' = query \o f
    /\ chunks_added' = chunks_added + 1
    /\ UNCHANGED <<checked, read_only>>
    /\ UNCHANGED <<execVars, orchVars, schedVars>>

CallIsReadOnlyQuery ==
    /\ ~checked
    /\ read_only' = is_read_only_query(query)
    /\ checked' = TRUE
    /\ UNCHANGED <<query, chunks_added>>
    /\ UNCHANGED <<execVars, orchVars, schedVars>>

NextGuard == AppendFragment \/ CallIsReadOnlyQuery

SpecGuard == InitGuard /\ [][NextGuard]_vars

(***************************************************************************)
(* Whole-word occurrences, read off the words of the string: a word is a   *)
(* maximal run of word characters.                                         *)
(***************************************************************************)
DenylistedWords ==
    {<<"i", "n", "s", "e", "r", "t">>,
     <<"u", "p", "d", "a", "t", "e">>,
     <<"d", "e", "l", "e", "t", "e">>,
     <<"d", "r", "o", "p">>,
     <<"c", "r", "e", "a", "t", "e">>,
     <<"a", "l", "t", "e", "r">>,
     <<"g", "r", "a", "n", "t">>,
     <<"t", "r", "u", "n", "c", "a", "t", "e">>}

LockWords == {<<"l", "o", "c", "k">>, <<"u", "n", "l", "o", "c", "k">>}

TablesWord == <<"t", "a", "b", "l", "e", "s">>

\* positions a..b of s hold one whole word
IsWholeWord(s, a, b) ==
    /\ 1 <= a /\ a <= b /\ b <= Len(s)
    /\ \A j \in a..b : IsWordChar(s[j])
    /\ (a = 1 \/ ~IsWordChar(s[a - 1]))
    /\ (b = Len(s) \/ ~IsWordChar(s[b + 1]))

\* two characters are the same letter in either case, or the same character
SameIgnoringCase(c, d) ==
    c = d \/ \E n \in 1..26 : {c, d} = {UpperCase[n], LowerCase[n]}

\* positions a..b of s spell w, in any case
Spells(s, a, b, w) ==
    /\ b - a + 1 = Len(w)
    /\ \A j \in 1..Len(w) : SameIgnoringCase(s[a + j - 1], w[j])

\* the whole word starting at position a of s spells w
WholeWordAt(s, a, w) ==
    LET b == a + Len(w) - 1
    IN  IsWholeWord(s, a, b) /\ Spells(s, a, b, w)

ContainsDenylistedKeyword(s) ==
    \/ \E a \in 1..Len(s) : \E w \in DenylistedWords : WholeWordAt(s, a, w)
    \/ \E a \in 1..Len(s) : \E w \in LockWords :
          /\ WholeWordAt(s, a, w)
          /\ \E c \in (a + Len(w) + 1)..Len(s) :
                /\ \A j \in (a + Len(w))..(c - 1) : IsSpace(s[j])
                /\ WholeWordAt(s, c, TablesWord)

\* C6: is_read_only_query returns false exactly for the strings that hold a
\* denylisted keyword as a whole word in any case (LOCK / UNLOCK followed by
\* white space and TABLES); a keyword that is part of a longer word does not
\* count, one inside a string literal does.
C6_GuardRejectsExactlyWholeWordKeywords ==
    checked => (read_only = FALSE <=> ContainsDenylistedKeyword(query))

\* C6 witness: a query whose only keyword is part of the longer word
\* updated_at was classified, and accepted.
C6_Witness_SubstringAccepted ==
    checked /\ read_only /\ query = SelectUpdatedAt

\* C7 as stated: is_read_only_query("SELECT 'update me'") returns true.
C7_Original_LiteralKeywordAccepted ==
    (checked /\ query = SelectUpdateMe) => read_only = TRUE

\* C7 amended: is_read_only_query("SELECT 'update me'") returns false, the
\* keyword inside the string literal being matched like any other word.
C7_LiteralKeywordRejected ==
    (checked /\ query = SelectUpdateMe) => read_only = FALSE

\* C7 witness: the guard has classified SELECT 'update me'.
C7_Witness_LiteralClassified ==
    checked /\ query = SelectUpdateMe /\ chunks_added = 0

\* C8 as stated: whatever column names the driver reports, every entry of
\* results has len(column_names) items, the i-th keyed by column_names[i] and
\* holding the i-th value of the driver's row, rows in the driver's order.
C8_Original_RowsAlignedWithColumns ==
    exec_pc = "returned" =>
        /\ exec_result.column_names = driver_columns
        /\ Len(exec_result.results) = Len(driver_rows)
        /\ \A r \in 1..Len(exec_result.results) :
              /\ Len(exec_result.results[r]) = Len(exec_result.column_names)
              /\ \A n \in 1..Len(exec_result.results[r]) :
                    exec_result.results[r][n] =
                        <<exec_result.column_names[n], driver_rows[r][n]>>

\* C9 as stated: for a non-empty result set column_types has one entry per
\* column, the i-th being the type name of the i-th value of the first row.
C9_Original_ColumnTypesOfFirstRow ==
    (exec_pc = "returned" /\ driver_rows # <<>>) =>
        /\ Len(exec_result.column_types) = Len(exec_result.column_names)
        /\ \A n \in 1..Len(exec_result.column_types) :
              exec_result.column_types[n] = TypeName(driver_rows[1][n])

(***************************************************************************)
(* Properties of text_to_sql_with_retry.                                   *)
(***************************************************************************)
NoCompletionFailure == \A n \in 1..Len(replies) : replies[n] # CompletionError

MutatingReply == "reply: UPDATE scores SET x=1"

\* C1 as stated: once a completion call has failed, whatever the attempt, no
\* further completion call is made, nothing is appended for that attempt, and
\* the invocation ends with an error raised to the caller.
C1_Original_CompletionFailureIsFatal ==
    \A f \in 1..Len(replies) :
        replies[f] = CompletionError =>
            /\ completion_calls = f
            /\ Len(messages) = Len(messages0) + 2 * (f - 1)
            /\ pc \in {"except", "done"}
            /\ pc = "done" => outcome = "Raised"

\* C2: when no completion call fails and no attempt succeeds, the invocation
\* with budget k >= 0 ends Exhausted after exactly k completion calls, with 2
\* messages appended per failed attempt and the pair None, None returned.
C2_ExhaustedAfterKAttempts ==
    (pc = "done" /\ outcome # "Success" /\ NoCompletionFailure /\ k >= 0) =>
        /\ outcome = "Exhausted"
        /\ completion_calls = k
        /\ i = k
        /\ Len(messages) = Len(messages0) + 2 * k
        /\ returned = NonePair

\* C2 witness: a completion client that always answers with mutating SQL
\* has exhausted the largest budget.
C2_Witness_AlwaysMutating ==
    /\ pc = "done"
    /\ outcome = "Exhausted"
    /\ k = MaxK
    /\ replies = [n \in 1..MaxK |-> MutatingReply]

\* C3: when attempt j is the first to succeed and no completion call failed,
\* j + 1 completion calls were made, the pair returned holds the candidate
\* extracted from the last reply and the result of executing it, and the
\* Conversation has grown by the 2 messages of each of the j failed attempts
\* and by nothing else.
C3_SuccessOnAttemptJ ==
    (pc = "done" /\ outcome = "Success" /\ NoCompletionFailure) =>
        /\ completion_calls = i + 1
        /\ returned.pair = "response, sql_query"
        /\ returned.sql_query =
               extract_sql_query_from_message(replies[completion_calls])
        /\ executed[Len(executed)] = returned.sql_query
        /\ returned.response = BuildResultDict(driver_columns, driver_rows)
        /\ Len(messages) = Len(messages0) + 2 * i
        /\ SubSeq(messages, 1, Len(messages0)) = messages0
        /\ \A n \in 1..i :
              /\ messages[Len(messages0) + 2 * n - 1] =
                     Message("assistant", PlainText(replies[n]))
              /\ messages[Len(messages0) + 2 * n].role = "user"

\* C3 witness: two attempts failed, the third returned a non-empty result.
C3_Witness_SuccessOnThirdAttempt ==
    /\ pc = "done"
    /\ outcome = "Success"
    /\ NoCompletionFailure
    /\ i = 2
    /\ driver_rows # <<>>

\* the queries of ExecQueries that is_read_only_query accepts
PassingGuard == {q \in ExecQueries : is_read_only_query(q)}

KnownMutating == {UpdateScores, SelectThenDrop}

\* C4: every statement handed to the database, the statement of every open
\* connection and every SQL string returned as accepted passed the read-only
\* guard; a connection is opened only for such a statement.
C4_OnlyReadOnlyReachesDatabase ==
    /\ \A n \in 1..Len(executed) :
          executed[n] \in PassingGuard /\ executed[n] \notin KnownMutating
    /\ connections = Len(executed)
    /\ exec_pc = "connected" => exec_sql \in PassingGuard
    /\ outcome = "Success" =>
          /\ returned.sql_query \in PassingGuard
          /\ returned.sql_query \notin KnownMutating
    /\ connections <= Cardinality({n \in 1..Len(replies) :
                                      replies[n] \notin {CompletionError,
                                                        MutatingReply}})

\* C4 witness: a first candidate was rejected by the guard without any
\* connection, the second was executed on the only connection opened.
C4_Witness_RejectedThenExecuted ==
    /\ pc = "done"
    /\ outcome = "Success"
    /\ Len(replies) = 2
    /\ replies[1] = MutatingReply
    /\ connections = 1

\* C5: when the first completion call fails, the invocation ends with an
\* error raised to the caller after that one call, nothing being appended to
\* the Conversation and nothing returned.
C5_FirstCompletionFailureRaises ==
    (replies # <<>> /\ replies[1] = CompletionError) =>
        /\ completion_calls = 1
        /\ messages = messages0
        /\ pc \in {"except", "done"}
        /\ pc = "done" => (outcome = "Raised" /\ returned = NotReturned)

\* C5 witness: the first completion call failed with the whole budget left
\* and the invocation has ended.
C5_Witness_RaisedOnFirstCall ==
    /\ pc = "done"
    /\ outcome = "Raised"
    /\ replies = <<CompletionError>>
    /\ k = MaxK

C10_Bounds ==
    k >= 0 =>
        /\ completion_calls <= k
        /\ Len(executed) <= k
        /\ connections <= k
        /\ pc # "done" => (outcome = "" /\ returned = NotReturned)
        /\ pc = "done" =>
              \/ outcome = "Success" /\ returned.pair = "response, sql_query"
              \/ outcome = "Exhausted" /\ returned = NonePair
              \/ outcome = "Raised" /\ returned = NotReturned
        /\ outcome = "Exhausted" =>
              /\ i = k
              /\ completion_calls = k
              /\ Len(messages) = Len(messages0) + 2 * k

\* C10: every invocation with budget k >= 0 ends, in exactly one of Success,
\* Exhausted and an error raised to the caller; it makes at most k completion
\* calls and at most k database executions, and ends Exhausted only after k
\* failed attempts.
C10_TerminatesWithinBudget == [](C10_Bounds) /\ <>(pc = "done")

\* C10 witness: the largest budget was exhausted by attempts that each
\* reached the database and failed there.
C10_Witness_ExhaustedAtDatabase ==
    /\ pc = "done"
    /\ outcome = "Exhausted"
    /\ k = MaxK
    /\ Len(executed) = MaxK

\* the reply the completion call of the attempt under way returned
ReplyOfThisAttempt == replies[completion_calls]

\* what went wrong in the attempt under way, its completion having returned:
\* no SQL in the reply, or what execute_sql raised
FailureOfThisAttempt ==
    IF HoldsSql(ReplyOfThisAttempt) THEN exec_error ELSE "NoSqlFound"

FailureDescriptions == {"NoSqlFound", NotReadOnlyMessage, "ExecutionError"}

C11_HandlerStep ==
    (pc = "except" /\ ReplyOfThisAttempt # CompletionError) =>
        /\ FailureOfThisAttempt \in FailureDescriptions
        /\ messages' = messages \o
               << Message("assistant", PlainText(ReplyOfThisAttempt)),
                  Message("user", FormatTemplate("MSG_WITH_ERROR_TRY_AGAIN",
                                                 <<FailureOfThisAttempt>>)) >>
        /\ i' = i + 1
        /\ pc' = "loop"

C11_AttemptStep ==
    pc \in {"extract", "execute"} => messages' = messages

\* C11: an attempt whose completion call returned and which then failed (no
\* SQL in the reply, the guard's rejection, or the database's error) appends
\* exactly two messages, the assistant message holding that attempt's reply
\* and then the user message that is the correction template filled with
\* the whole description of that failure, and moves on to the next attempt.
C11_FailedAttemptAppendsReplyThenCorrection ==
    [][C11_HandlerStep /\ C11_AttemptStep]_vars

\* C11 witness: three attempts failed in the three ways, each leaving its
\* own reply and the correction for its own failure.
C11_Witness_ThreeKindsOfFailure ==
    /\ pc = "loop"
    /\ i = 3
    /\ messages = messages0 \o
          << Message("assistant", PlainText("reply without sql")),
             Message("user", CorrectionContent("NoSqlFound")),
             Message("assistant", PlainText("reply: UPDATE scores SET x=1")),
             Message("user", CorrectionContent(NotReadOnlyMessage)),
             Message("assistant", PlainText("reply: SELECT * FROM games")),
             Message("user", CorrectionContent("ExecutionError")) >>

\* the messages argument as the caller wrote it
SuppliedMessages ==
    IF messages_arg = "conversation" THEN SuppliedConversation ELSE <<>>

\* the Conversation the function builds: the few-shot messages, then one
\* user message made from the instruction template
BuiltConversation ==
    get_few_shot_messages \o << Message("user", InstructionContent) >>

UsedAsIs ==
    /\ schema_calls = 0
    /\ few_shot_calls = 0
    /\ sent # <<>> => sent[1] = SuppliedMessages

BuiltOnce ==
    /\ schema_calls = (IF pc = "entry" THEN 0 ELSE 1)
    /\ few_shot_calls = schema_calls
    /\ sent # <<>> => sent[1] = BuiltConversation

\* C12 as stated: a messages argument that is a list, whatever its length,
\* is used as it is, and the Conversation is built only when the argument
\* is None.
C12_Original_AnySuppliedListUsedAsIs ==
    /\ messages_arg # "None" => UsedAsIs
    /\ messages_arg = "None" => BuiltOnce

\* C12: a non-empty messages argument is used as it is, with no call of the
\* schema provider or the few-shot provider, and is what the first
\* completion call receives; with None or an empty list the schema provider
\* is called exactly once and the first completion call receives the
\* few-shot messages followed by the one instruction message.
C12_NonEmptyUsedAsIsElseBuilt ==
    /\ messages_arg = "conversation" => UsedAsIs
    /\ messages_arg \in {"None", "empty"} => BuiltOnce

\* C12 witness: the first completion call has been made in an invocation
\* given a Conversation and in one given an empty list.
C12_Witness_FirstCallMade ==
    /\ Len(sent) = 1
    /\ \/ messages_arg = "conversation" /\ sent[1] = SuppliedConversation
       \/ messages_arg = "empty" /\ sent[1] = BuiltConversation

IsPrefix(s, t) ==
    /\ Len(s) <= Len(t)
    /\ \A n \in 1..Len(s) : t[n] = s[n]

Roles == {"system", "user", "assistant"}

C13_State ==
    /\ pc \notin {"idle", "entry"} => IsPrefix(messages0, messages)
    /\ \A n \in 1..Len(messages) : messages[n].role \in Roles

C13_Step == IsPrefix(messages, messages')

\* C13: the Conversation only grows by appending: once the loop has started
\* the Conversation it started with is a prefix of the current one, no step
\* changes, removes or reorders a message already there, and every message
\* has the role system, user or assistant.
C13_ConversationIsAppendOnly == [](C13_State) /\ [][C13_Step]_vars

\* C13 witness: two correction turns were appended to a Conversation the
\* caller handed in.
C13_Witness_TwoTurnsAppended ==
    /\ messages_arg = "conversation"
    /\ pc = "loop"
    /\ i = 2
    /\ Len(messages) = Len(messages0) + 4

\* the message is a correction: user role, made from the correction template
IsCorrection(message) ==
    /\ message.role = "user"
    /\ Len(message.content) = 2
    /\ message.content[1] = "MSG_WITH_ERROR_TRY_AGAIN"

\* call n + 1 received what call n received plus the turn of attempt n
NextCallExtendsByTurn(n) ==
    /\ Len(sent[n + 1]) = Len(sent[n]) + 2
    /\ IsPrefix(sent[n], sent[n + 1])
    /\ sent[n + 1][Len(sent[n]) + 1] = Message("assistant", PlainText(replies[n]))
    /\ IsCorrection(sent[n + 1][Len(sent[n]) + 2])

OneCallAtATime ==
    /\ Len(sent) = completion_calls
    /\ Len(replies) = completion_calls
    /\ exec_pc # "idle" => pc = "execute"
    /\ conn_open => pc = "execute"
    /\ connections = Len(executed)

\* C14 as stated: the attempts of one invocation run one after the other;
\* completion call n + 1 receives what call n received followed by exactly
\* the assistant reply of attempt n and its correction message, and no
\* completion call or database execution starts while another is under way.
C14_Original_EachCallExtendsThePreviousByItsOwnTurn ==
    /\ OneCallAtATime
    /\ \A n \in 1..(Len(sent) - 1) : NextCallExtendsByTurn(n)

\* C15: the connection and the transaction live inside one call of
\* execute_sql: both are closed when execute_sql has returned or raised,
\* whether the statement ran or the driver failed, so none is open while the
\* retry loop makes a completion call, handles a failure or returns.
C15_ConnectionScopedToOneExecution ==
    /\ txn_open => conn_open
    /\ conn_open => (exec_pc = "connected" /\ pc = "execute")
    /\ exec_pc \in {"idle", "returned", "raised"} => (~conn_open /\ ~txn_open)
    /\ pc \in {"entry", "loop", "extract", "except", "done"} =>
          (~conn_open /\ ~txn_open)

\* C15 witness: one execution failed in the driver, the next one succeeded,
\* and the invocation has returned.
C15_Witness_RaisedThenReturned ==
    /\ pc = "done"
    /\ outcome = "Success"
    /\ connections = 2
    /\ ~conn_open
    /\ ~txn_open

\* C17: the value execute_sql returns has the key column_types exactly when
\* the result set has at least one row; for an empty result set it holds
\* only column_names, as the driver reported them, and an empty results.
C17_ColumnTypesIffSomeRow ==
    exec_pc = "returned" =>
        /\ exec_result.has_column_types <=> (driver_rows # <<>>)
        /\ driver_rows = <<>> =>
              /\ exec_result.column_names = driver_columns
              /\ exec_result.results = <<>>
              /\ ~exec_result.has_column_types

\* C17 witness: execute_sql returned for a result set of two columns and no
\* row.
C17_Witness_EmptyResultSet ==
    /\ exec_pc = "returned"
    /\ Len(driver_columns) = 2
    /\ driver_rows = <<>>
    /\ ~exec_result.has_column_types

\* the assistant message attempt n appended (attempt n made completion call n)
AssistantMessageOfAttempt(n) == messages[Len(messages0) + 2 * n - 1]

\* C18 as stated: the assistant message each failed attempt appends holds
\* the reply that this attempt's own completion call returned, so no reply
\* is appended twice and no later attempt appends an earlier reply again,
\* whatever completion calls return or fail.
C18_Original_AppendedReplyIsOfTheSameAttempt ==
    \A n \in 1..i :
        /\ replies[n] # CompletionError
        /\ AssistantMessageOfAttempt(n) =
               Message("assistant", PlainText(replies[n]))

\* C19: a non-empty Conversation handed in is the very list the correction
\* turns are appended to: the caller's list is the supplied messages
\* followed by two messages for each failed attempt (2k after Exhausted, 2j
\* after Success on attempt j, counted from 0); a Conversation the function
\* built itself never reaches the caller, neither through the caller's list
\* nor in the pair returned.
C19_CorrectionTurnsShowInCallersConversation ==
    /\ messages_arg = "conversation" =>
          /\ caller_messages = messages
          /\ IsPrefix(SuppliedConversation, caller_messages)
          /\ Len(caller_messages) = Len(SuppliedConversation) + 2 * i
          /\ (outcome = "Exhausted" /\ k >= 0) =>
                Len(caller_messages) = Len(SuppliedConversation) + 2 * k
          /\ outcome = "Success" =>
                Len(caller_messages) =
                    Len(SuppliedConversation) + 2 * (completion_calls - 1)
    /\ messages_arg # "conversation" => caller_messages = <<>>
    /\ DOMAIN returned = {"pair", "response", "sql_query"}
    /\ returned.pair \in {"", "None, None", "response, sql_query"}

\* C19 witness: the caller's Conversation has grown by two correction turns
\* when the third attempt succeeded.
C19_Witness_CallerSeesTwoTurns ==
    /\ messages_arg = "conversation"
    /\ pc = "done"
    /\ outcome = "Success"
    /\ i = 2
    /\ Len(caller_messages) = Len(SuppliedConversation) + 4

C20_NoWork ==
    k <= 0 =>
        /\ completion_calls = 0
        /\ sent = <<>>
        /\ executed = <<>>
        /\ connections = 0
        /\ i = 0
        /\ pc \notin {"idle", "entry"} => messages = messages0
        /\ caller_messages = SuppliedMessages
        /\ outcome \in {"", "Exhausted"}
        /\ pc = "done" => (outcome = "Exhausted" /\ returned = NonePair)

\* C20: with a budget of 0 or less the loop body never runs: no completion
\* call, no database execution, no correction turn, and the invocation
\* returns the pair (None, None) without raising.
C20_NoBudgetNoWork == [](C20_NoWork) /\ <>(k <= 0 => pc = "done")

\* C20 witness: an invocation with budget 0 has returned (None, None).
C20_Witness_ZeroBudgetReturned ==
    /\ k = 0
    /\ pc = "done"
    /\ returned = NonePair
    /\ completion_calls = 0

\* what went wrong in an attempt that failed, given what its completion
\* call gave
FailureAfter(reply) ==
    CASE reply = CompletionError -> CompletionError
      [] reply # CompletionError /\ ~HoldsSql(reply) -> "NoSqlFound"
      [] OTHER ->
           IF extract_sql_query_from_message(reply) \in PassingGuard
           THEN "ExecutionError"
           ELSE NotReadOnlyMessage

\* the last reply a completion call returned, among calls 1..n
RECURSIVE LastReplyAt(_, _)
LastReplyAt(rs, n) ==
    IF n = 0 THEN NoneValue
    ELSE IF rs[n] # CompletionError THEN rs[n] ELSE LastReplyAt(rs, n - 1)

\* the messages the first n failed attempts append, given what the
\* completion calls of those attempts gave
RECURSIVE TurnsOf(_, _)
TurnsOf(rs, n) ==
    IF n = 0 THEN <<>>
    ELSE TurnsOf(rs, n - 1) \o
             << Message("assistant", PlainText(LastReplyAt(rs, n))),
                Message("user", CorrectionContent(FailureAfter(rs[n]))) >>

\* the Conversation the invocation of frame f in thread t starts its loop with
OwnInitial(f, t) ==
    IF f.messages_arg = "conversation"
    THEN SuppliedTo(t, "conversation")
    ELSE BuiltConversation

\* the state of the invocation of frame f in thread t is what its own
\* arguments and the answers given to it determine
OwnHistoryOnly(f, t) ==
    f.pc \notin {"idle", "entry"} =>
        /\ f.messages0 = OwnInitial(f, t)
        /\ f.completion_calls = Len(f.replies)
        /\ \A n \in 1..Len(f.replies) :
              f.replies[n] \in RepliesTo(t) \cup {CompletionError}
        /\ f.messages = f.messages0 \o TurnsOf(f.replies, f.i)
        /\ \A n \in 1..Len(f.sent) :
              f.sent[n] = f.messages0 \o TurnsOf(f.replies, n - 1)
        /\ f.caller_messages =
              (IF f.messages_arg = "conversation" THEN f.messages ELSE <<>>)
        /\ f.outcome = "Raised" <=>
              (f.pc = "done" /\ f.replies = <<CompletionError>>)
        /\ f.outcome = "Exhausted" <=>
              (f.pc = "done" /\ f.i = f.k /\ f.completion_calls = f.k)
        /\ f.outcome = "Success" <=>
              /\ f.pc = "done"
              /\ f.completion_calls = f.i + 1
              /\ f.replies[f.completion_calls] # CompletionError
        /\ f.outcome = "Success" =>
              /\ f.returned.sql_query =
                     extract_sql_query_from_message(f.replies[f.completion_calls])
              /\ f.returned.sql_query \in PassingGuard

\* no assistant message of the Conversation of frame f in thread t holds a
\* reply given to the other thread
NoForeignMessage(f, t) ==
    \A n \in 1..Len(f.messages) :
        (n > Len(f.messages0) /\ f.messages[n].role = "assistant") =>
            f.messages[n].content[1] \in RepliesTo(t)

\* C16: two invocations running in two threads on distinct Conversations do
\* not affect each other, however their steps interleave: the outcome, the
\* number of completion calls and the Conversation of each are what its own
\* arguments and the answers given to it determine, and no message of one
\* shows in the Conversation of the other.
C16_ConcurrentInvocationsAreIndependent ==
    /\ OwnHistoryOnly(Frame, tid)
    /\ OwnHistoryOnly(parked, 3 - tid)
    /\ NoForeignMessage(Frame, tid)
    /\ NoForeignMessage(parked, 3 - tid)

\* C16 witness: one thread handles the failure of its second attempt while
\* the other one is preempted inside execute_sql, its connection open, after
\* a failed attempt of its own.
C16_Witness_BothHalfWay ==
    /\ pc = "except"
    /\ i = 1
    /\ parked.pc = "execute"
    /\ parked.conn_open
    /\ parked.i = 1

====
